---- MODULE Spec2Model ----
(***************************************************************************)
(* Model of the demand-forecasting and production-planning page of         *)
(* foreprep (src/src/pages/Forecast.tsx) together with the stores it       *)
(* talks to: the products table, the sales_data table and the              *)
(* production_plans table.                                                 *)
(*                                                                         *)
(* Time is counted in hours since 1970-01-01T00:00Z; a calendar date (the  *)
(* 'YYYY-MM-DD' strings of the code) is the number of days since           *)
(* 1970-01-01.  The browser's time zone is a whole number of hours.        *)
(***************************************************************************)
EXTENDS Integers, Sequences, FiniteSets, Bags, TLC

(***************************************************************************)
(* Bounds of the model.                                                    *)
(***************************************************************************)
\* The UTC calendar day on which the page is used (19723 = 2024-01-01).
Today == 19723
\* Largest number of observations in a ledger of the calculation runs.
MaxObs == 5
\* Number of saveProductionPlan runs in one behaviour.
MaxSaves == 2
\* Number of override edits in one behaviour.
MaxEdits == 1
\* Number of submissions and deletions on the Sales page in one behaviour.
MaxSubmits == 2
\* Number of saves of the second caller in one behaviour.
MaxOtherSaves == 1

HoursPerDay == 24
DaysPerWeek == 7
\* getDay() of 1970-01-01 (a Thursday).
EpochDayOfWeek == 4
\* Forecast.tsx:55  fourWeeksAgo.setDate(fourWeeksAgo.getDate() - 28)
LookbackDays == 28
\* Forecast.tsx:88  relevantSales.slice(0, 3)
MaxWeeks == 3

\* The UTC date of the nominal target day.
T == Today + 1

\* types/index.ts:40-44
TIME_PERIODS == <<"Breakfast", "Lunch", "Afternoon">>
TimePeriods == {TIME_PERIODS[i] : i \in 1..Len(TIME_PERIODS)}

\* The product catalog, in the order of .order('name').
ProductsByName == <<"p1", "p2">>
Products == {ProductsByName[i] : i \in 1..Len(ProductsByName)}

\* Browser time zones (hours east of UTC) and hours of the day (UTC) at
\* which the page is used.
TimeZones == {-5, 0, 5}
HoursOfDay == {2, 22}
\* The instants of those hours on the day of use.
Instants(hours) == {Today * HoursPerDay + h : h \in hours}
\* The hours of the day (UTC) and the browser time zone of the planning
\* runs.
PlanHoursOfDay == {22}
PlanTimeZones == {0}

\* An absent optional field (undefined / NULL) and a present one.
Undefined == <<>>
Some(v) == <<v>>

Min(a, b) == IF a <= b THEN a ELSE b

(***************************************************************************)
(* Dates.                                                                  *)
(***************************************************************************)
\* Date.prototype.getDay of a calendar day.
DayOfWeek(d) == (d + EpochDayOfWeek) % DaysPerWeek
\* toISOString().split('T')[0]: the UTC calendar day of an instant.
UTCDate(t) == t \div HoursPerDay
\* The local calendar day of an instant in time zone z.
LocalDate(t, z) == (t + z) \div HoursPerDay
\* tomorrow.setDate(tomorrow.getDate() + 1): same local time, next day.
Tomorrow(t) == t + HoursPerDay
\* Forecast.tsx:16
TomorrowStr(t) == UTCDate(Tomorrow(t))
\* Forecast.tsx:17
TomorrowDayOfWeek(t, z) == DayOfWeek(LocalDate(Tomorrow(t), z))
\* Forecast.tsx:54-56
FourWeeksAgoStr(t) == UTCDate(t - LookbackDays * HoursPerDay)
\* Forecast.tsx:73-74  new Date('YYYY-MM-DD') is UTC midnight; getDay is local.
SaleDayOfWeek(d, z) == DayOfWeek(LocalDate(d * HoursPerDay, z))

(***************************************************************************)
(* The forecast calculation (generateForecasts, steps 2 and 3).            *)
(***************************************************************************)
\* A row of sales_data.
Sale(pid, d, tp, q) ==
  [product_id |-> pid, sale_date |-> d, time_period |-> tp, quantity_sold |-> q]

\* Mutant: the rows by ascending date.
RECURSIVE OrderBySaleDateAsc(_)
OrderBySaleDateAsc(rows) ==
  IF rows = {} THEN <<>>
  ELSE LET first == CHOOSE r \in rows : \A o \in rows : o.sale_date >= r.sale_date
       IN  <<first>> \o OrderBySaleDateAsc(rows \ {first})

\* .order('sale_date', { ascending: false }): the rows by descending date.
\* Rows of equal date differ in product or time period and are never in the
\* same filtered list, so their mutual order does not reach the result.
RECURSIVE OrderBySaleDateDesc(_)
OrderBySaleDateDesc(rows) ==
  IF rows = {} THEN <<>>
  ELSE LET first == CHOOSE r \in rows : \A o \in rows : o.sale_date <= r.sale_date
       IN  <<first>> \o OrderBySaleDateDesc(rows \ {first})

\* Forecast.tsx:58-62  the read of sales_data since fourWeeksAgoStr.
SelectSalesData(ledger, t) ==
  OrderBySaleDateDesc({r \in ledger : r.sale_date >= FourWeeksAgoStr(t)})

\* Forecast.tsx:72-80
RelevantSales(salesData, pid, tp, dow, z) ==
  LET Keep(sale) == /\ sale.product_id = pid
                    /\ sale.time_period = tp
                    /\ SaleDayOfWeek(sale.sale_date, z) = dow
  IN  SelectSeq(salesData, Keep)

\* Mutant: the slice is left out.
RecentSalesUnsliced(relevantSales) == relevantSales

\* Forecast.tsx:88  relevantSales.slice(0, 3)
RecentSales(relevantSales) ==
  SubSeq(relevantSales, 1, Min(MaxWeeks, Len(relevantSales)))

\* Forecast.tsx:92  reduce((sum, sale) => sum + sale.quantity_sold, 0)
RECURSIVE TotalSold(_)
TotalSold(sales) ==
  IF sales = <<>> THEN 0
  ELSE Head(sales).quantity_sold + TotalSold(Tail(sales))

\* Mutant: Math.round in place of Math.ceil.
RoundOfAverage(totalSold, weeksOfData) ==
  (2 * totalSold + weeksOfData) \div (2 * weeksOfData)

\* Forecast.tsx:93-96  Math.ceil(totalSold / weeksOfData), exact for the
\* 32-bit quantities of the table.
CeilOfAverage(totalSold, weeksOfData) == -((-totalSold) \div weeksOfData)

\* Mutant: last_week_quantity is taken from the oldest retained observation.
ForecastItemOfOldest(pid, tp, relevantSales) ==
  LET recentSales == RecentSales(relevantSales)
      weeksOfData == Len(recentSales)
  IN  [product_id         |-> pid,
       time_period        |-> tp,
       forecast_quantity  |-> CeilOfAverage(TotalSold(recentSales), weeksOfData),
       manual_override    |-> Undefined,
       last_week_quantity |-> recentSales[weeksOfData].quantity_sold,
       weeks_of_data      |-> weeksOfData,
       has_warning        |-> weeksOfData < MaxWeeks]

\* Forecast.tsx:87-109  the item pushed for one product and time period.
ForecastItem(pid, tp, relevantSales) ==
  LET recentSales == RecentSales(relevantSales)
      weeksOfData == Len(recentSales)
  IN  [product_id         |-> pid,
       time_period        |-> tp,
       forecast_quantity  |-> CeilOfAverage(TotalSold(recentSales), weeksOfData),
       manual_override    |-> Undefined,
       last_week_quantity |-> recentSales[1].quantity_sold,
       weeks_of_data      |-> weeksOfData,
       has_warning        |-> weeksOfData < MaxWeeks]

\* Forecast.tsx:70-110  the inner loop over TIME_PERIODS for one product.
RECURSIVE ForecastsOfProduct(_, _, _, _, _)
ForecastsOfProduct(pid, i, salesData, dow, z) ==
  IF i > Len(TIME_PERIODS) THEN <<>>
  ELSE LET relevantSales == RelevantSales(salesData, pid, TIME_PERIODS[i], dow, z)
           rest == ForecastsOfProduct(pid, i + 1, salesData, dow, z)
       IN  IF Len(relevantSales) = 0 THEN rest
           ELSE <<ForecastItem(pid, TIME_PERIODS[i], relevantSales)>> \o rest

\* Forecast.tsx:67-111  the outer loop over the fetched products.
RECURSIVE NewForecasts(_, _, _, _)
NewForecasts(products, salesData, dow, z) ==
  IF products = <<>> THEN <<>>
  ELSE ForecastsOfProduct(Head(products), 1, salesData, dow, z)
         \o NewForecasts(Tail(products), salesData, dow, z)

\* Mutant: the filter .eq('active', true) is left out.
SelectAllProducts(active) == ProductsByName

\* Forecast.tsx:40-44  the active products, ordered by name.
SelectActiveProducts(active) ==
  SelectSeq(ProductsByName, LAMBDA pid : active[pid])

(***************************************************************************)
(* Manual overrides (updateManualOverride) and the plan rows               *)
(* (saveProductionPlan).  An input text is a sequence of characters.       *)
(***************************************************************************)
Digits == <<"0", "1", "2", "3", "4", "5", "6", "7", "8", "9">>
IsDigit(c) == \E i \in 1..Len(Digits) : Digits[i] = c
DigitValue(c) == (CHOOSE i \in 1..Len(Digits) : Digits[i] = c) - 1

\* The value of the longest prefix of digits of txt, read after acc.
RECURSIVE DigitsPrefixValue(_, _)
DigitsPrefixValue(txt, acc) ==
  IF txt = <<>> \/ ~IsDigit(Head(txt)) THEN acc
  ELSE DigitsPrefixValue(Tail(txt), acc * Len(Digits) + DigitValue(Head(txt)))

\* Forecast.tsx:184  parseInt(value): an optional sign, then the longest
\* prefix of digits; NaN (Undefined here) when there is no digit.
ParseInt(value) ==
  LET negative == value # <<>> /\ Head(value) = "-"
      signed   == value # <<>> /\ Head(value) \in {"-", "+"}
      body     == IF signed THEN Tail(value) ELSE value
  IN  IF body = <<>> \/ ~IsDigit(Head(body)) THEN Undefined
      ELSE Some(IF negative THEN -DigitsPrefixValue(body, 0)
                ELSE DigitsPrefixValue(body, 0))

\* Forecast.tsx:189  value === '' ? undefined : (isNaN(numValue) ? undefined : numValue)
OverrideOf(value) == IF value = <<>> THEN Undefined ELSE ParseInt(value)

\* Mutant: the override is given to every item.
WithManualOverrideOnAll(prev, pid, tp, value) ==
  [i \in 1..Len(prev) |-> [prev[i] EXCEPT !.manual_override = OverrideOf(value)]]

\* Forecast.tsx:185-193  the map over the previous forecasts.
WithManualOverride(prev, pid, tp, value) ==
  [i \in 1..Len(prev) |->
     IF prev[i].product_id = pid /\ prev[i].time_period = tp
     THEN [prev[i] EXCEPT !.manual_override = OverrideOf(value)]
     ELSE prev[i]]

\* Forecast.tsx:260, 415  item.manual_override ?? item.forecast_quantity
FinalQty(item) ==
  IF item.manual_override = Undefined THEN item.forecast_quantity
  ELSE item.manual_override[1]

\* Mutant: the final quantity is written as forecast_quantity.
PlanRowOfFinalQty(planDate, forecast) ==
  [plan_date         |-> planDate,
   product_id        |-> forecast.product_id,
   time_period       |-> forecast.time_period,
   forecast_quantity |-> FinalQty(forecast),
   adjusted_quantity |-> forecast.manual_override]

\* Forecast.tsx:142-148  the row of production_plans made from one item.
PlanRow(planDate, forecast) ==
  [plan_date         |-> planDate,
   product_id        |-> forecast.product_id,
   time_period       |-> forecast.time_period,
   forecast_quantity |-> forecast.forecast_quantity,
   adjusted_quantity |-> forecast.manual_override]

\* Forecast.tsx:142-148  forecasts.map(...)
ProductionPlans(planDate, items) ==
  [i \in 1..Len(items) |-> PlanRow(planDate, items[i])]

\* The rows of a list as a table content (a bag: the table has no key but
\* its generated id).
RECURSIVE RowsToBag(_)
RowsToBag(rows) ==
  IF rows = <<>> THEN EmptyBag
  ELSE SetToBag({Head(rows)}) (+) RowsToBag(Tail(rows))

\* The rows of a table content with the given plan_date.
PlansOn(table, planDate) ==
  LET keep == {r \in BagToSet(table) : r.plan_date = planDate}
  IN  [r \in keep |-> table[r]]

\* Mutant: the delete has no filter on plan_date.
DeleteAllPlans(table, planDate) == EmptyBag

\* Forecast.tsx:151-154  .delete().eq('plan_date', tomorrowStr)
DeletePlansOn(table, planDate) ==
  LET keep == {r \in BagToSet(table) : r.plan_date # planDate}
  IN  [r \in keep |-> table[r]]

\* Forecast.tsx:157-159  .insert(productionPlans)
InsertPlans(table, rows) == table (+) RowsToBag(rows)

(***************************************************************************)
(* State.                                                                  *)
(***************************************************************************)
VARIABLES
  now,               \* the current instant (hours since the epoch, UTC)
  tz,                \* the browser's offset from UTC, in hours
  products_active,   \* products table: the active column, per product id
  sales_data,        \* sales_data table: the set of rows
  production_plans,  \* production_plans table: the bag of rows
  forecasts,         \* useState forecasts
  isGenerating,      \* useState isGenerating
  isSaving,          \* useState isSaving
  toast,             \* the type of the last toast set ("none" before any)
  toast_message,     \* the message of that toast, by name
  gen_pc,            \* generateForecasts: "idle", "products" or "sales"
  gen_products,      \* generateForecasts: the local products
  gen_dow,           \* generateForecasts: tomorrowDayOfWeek of its closure
  save_pc,           \* saveProductionPlan: "idle", "delete" or "insert"
  save_rows,         \* saveProductionPlan: the local productionPlans
  save_date,         \* saveProductionPlan: tomorrowStr of its closure
  override_input,    \* the text last typed in each item's override field
  edits,             \* number of override edits so far
  saves,             \* number of saveProductionPlan runs so far
  save_prior,        \* the table as the running (or last) save found it
  save_result,       \* what the last finished save reported
  plain_plan,        \* the plan left by the first of the successive
                     \* successful commits of freshly generated forecasts
  sales_ids,         \* sales_data table: the id column, per row
  next_id,           \* sales_data table: the id of the next inserted row
  sales_entries,     \* Sales page: useState salesData
  editingId,         \* Sales page: useState editingId
  form_date,         \* Sales page: formData.sale_date
  form_errors,       \* Sales page: the fields of useState errors
  sales_toast,       \* Sales page: the last toast set, by name
  submits,           \* number of submissions and deletions so far
  add_of_held,       \* the last call on the Sales page was a submission in
                     \* add mode for a triple that the ledger held
  sales_call,        \* the last handler called on the Sales page, by name
  other_pc,          \* second caller's saveProductionPlan: its position
  other_rows,        \* second caller's saveProductionPlan: productionPlans
  other_date,        \* second caller's saveProductionPlan: tomorrowStr
  other_saves,       \* number of saves of the second caller so far
  other_result       \* what the second caller's last finished save reported

vars == <<now, tz, products_active, sales_data, production_plans, forecasts,
          isGenerating, isSaving, toast, gen_pc, gen_products, gen_dow,
          save_pc, save_rows, save_date, override_input, edits, saves,
          save_prior, save_result, plain_plan, toast_message,
          sales_ids, next_id, sales_entries, editingId, form_date, form_errors,
          sales_toast, submits, add_of_held, sales_call,
          other_pc, other_rows, other_date, other_saves, other_result>>

storeVars == <<products_active, sales_data, production_plans>>
clockVars == <<now, tz>>
genVars   == <<isGenerating, gen_pc, gen_products, gen_dow>>
salesVars == <<sales_ids, next_id, sales_entries, editingId, form_date,
               form_errors, sales_toast, submits, add_of_held, sales_call>>
otherVars == <<other_pc, other_rows, other_date, other_saves, other_result>>
saveVars  == <<isSaving, save_pc, save_rows, save_date, saves, save_prior,
               save_result, plain_plan>>

(***************************************************************************)
(* Inputs.                                                                 *)
(***************************************************************************)
\* The observations the ledgers of the calculation runs are drawn from.
ObservationPool ==
  {Sale("p1", T - 7, "Breakfast", 1),  Sale("p1", T - 7, "Breakfast", 2),
   Sale("p1", T - 14, "Breakfast", 2), Sale("p1", T - 21, "Breakfast", 1),
   Sale("p1", T - 28, "Breakfast", 8), Sale("p1", T - 6, "Breakfast", 2),
   Sale("p1", T - 35, "Breakfast", 8), Sale("p1", T, "Breakfast", 1),
   Sale("p1", T - 7, "Lunch", 8),
   Sale("p2", T - 7, "Breakfast", 2),  Sale("p2", T - 6, "Afternoon", 8)}

\* create-sales-table.sql:20-21  idx_sales_data_unique_entry
UniqueEntry(rows) ==
  \A a, b \in rows :
    (/\ a.product_id = b.product_id
     /\ a.sale_date = b.sale_date
     /\ a.time_period = b.time_period) => a = b

\* create-sales-table.sql:9  CHECK (quantity_sold > 0)
QuantityCheck(rows) == \A r \in rows : r.quantity_sold > 0

Ledgers ==
  {l \in SUBSET ObservationPool :
     Cardinality(l) <= MaxObs /\ UniqueEntry(l) /\ QuantityCheck(l)}

\* The ledgers of the planning runs.
PlanLedgers ==
  { {Sale("p1", T - 7, "Breakfast", 8)},
    {Sale("p1", T - 7, "Breakfast", 1), Sale("p1", T - 14, "Breakfast", 2),
     Sale("p1", T - 21, "Breakfast", 1), Sale("p1", T - 28, "Breakfast", 8)},
    {Sale("p1", T - 7, "Breakfast", 1), Sale("p1", T - 14, "Breakfast", 2),
     Sale("p1", T - 6, "Breakfast", 2), Sale("p2", T - 7, "Lunch", 8)} }

\* A row of production_plans.
Plan(d, pid, tp, fq, aq) ==
  [plan_date |-> d, product_id |-> pid, time_period |-> tp,
   forecast_quantity |-> fq, adjusted_quantity |-> aq]

\* The contents of production_plans when the page is opened: nothing, or
\* an earlier plan for the target day beside the plan of the day before.
InitialPlans ==
  { EmptyBag,
    SetToBag({Plan(T, "p1", "Breakfast", 8, Undefined),
              Plan(T, "p2", "Afternoon", 2, Some(5)),
              Plan(T - 1, "p1", "Breakfast", 3, Undefined)}) }

\* The texts typed in an override field.
OverrideInputs ==
  { <<>>, <<"5">>, <<"0">>, <<"-", "3">>, <<"a", "b", "c">> }

\* The state of a freshly mounted page over the given stores.
PageInit ==
  /\ tz \in TimeZones
  /\ forecasts = <<>>
  /\ isGenerating = FALSE
  /\ isSaving = FALSE
  /\ toast = "none"
  /\ toast_message = "none"
  /\ gen_pc = "idle"
  /\ gen_products = <<>>
  /\ gen_dow = 0
  /\ save_pc = "idle"
  /\ save_rows = <<>>
  /\ save_date = 0
  /\ override_input = <<>>
  /\ edits = 0
  /\ saves = 0
  /\ save_prior = EmptyBag
  /\ save_result = "none"
  /\ plain_plan = Undefined

\* The id column of the rows that are in sales_data when a page is opened.
InitialIds(rows) ==
  LET byDate == OrderBySaleDateDesc(rows)
  IN  [r \in rows |-> CHOOSE i \in 1..Len(byDate) : byDate[i] = r]

\* The id column and the id generator of sales_data over its first rows.
SalesStoreInit ==
  /\ sales_ids = InitialIds(sales_data)
  /\ next_id = Cardinality(sales_data) + 1

\* Sales.tsx:30-44  the Sales page before it has loaded anything.
SalesPageInit ==
  /\ sales_entries = {}
  /\ editingId = Undefined
  /\ form_date = UTCDate(now)
  /\ form_errors = {}
  /\ sales_toast = "none"
  /\ submits = 0
  /\ add_of_held = FALSE
  /\ sales_call = "none"

\* The second caller before its first save.
OtherCallerInit ==
  /\ other_pc = "idle"
  /\ other_rows = <<>>
  /\ other_date = 0
  /\ other_saves = 0
  /\ other_result = "none"

\* The catalogs of the planning runs: every product active, or none.
PlanCatalogs ==
  { [pid \in Products |-> TRUE], [pid \in Products |-> FALSE] }

Init ==
  /\ PageInit
  /\ tz \in PlanTimeZones
  /\ now \in Instants(PlanHoursOfDay)
  /\ products_active \in PlanCatalogs
  /\ sales_data \in PlanLedgers
  /\ production_plans \in InitialPlans
  /\ SalesStoreInit /\ SalesPageInit /\ OtherCallerInit

CalcInit ==
  /\ PageInit
  /\ now \in Instants(HoursOfDay)
  /\ products_active = [pid \in Products |-> TRUE]
  /\ sales_data \in Ledgers
  /\ production_plans = EmptyBag
  /\ SalesStoreInit /\ SalesPageInit /\ OtherCallerInit

(***************************************************************************)
(* generateForecasts (Forecast.tsx:36-129).                                *)
(***************************************************************************)
\* Mutant: a completed run always announces success.
ToastTypeAlwaysSuccess(newForecasts) == "success"

\* Forecast.tsx:115-122  the message of the toast of a completed run.
ToastMessageOfForecasts(newForecasts) ==
  IF Len(newForecasts) = 0 THEN "no_forecast_data" ELSE "forecast_generated"

\* Forecast.tsx:115-122  the type of the toast of a completed run.
ToastTypeOfForecasts(newForecasts) ==
  IF Len(newForecasts) = 0 THEN "info" ELSE "success"

\* Mutant: the click first clears the persisted plan of the target day.
GenerateStartClearingPlan ==
  /\ ~isGenerating
  /\ isGenerating' = TRUE
  /\ gen_pc' = "products"
  /\ gen_dow' = TomorrowDayOfWeek(now, tz)
  /\ production_plans' = DeletePlansOn(production_plans, TomorrowStr(now))
  /\ UNCHANGED <<clockVars, salesVars, otherVars, products_active, sales_data, saveVars, forecasts,
                 toast, toast_message, gen_products, override_input, edits>>

\* Lines 36-44: the click on "Generate Forecast" up to the first await.
GenerateStart ==
  /\ ~isGenerating
  /\ isGenerating' = TRUE
  /\ gen_pc' = "products"
  /\ gen_dow' = TomorrowDayOfWeek(now, tz)
  /\ UNCHANGED <<clockVars, salesVars, otherVars, storeVars, saveVars, forecasts, toast, toast_message,
                 gen_products, override_input, edits>>

\* Lines 46, 123-128: the read of products returns an error.
GenerateProductsError ==
  /\ gen_pc = "products"
  /\ toast' = "error"
  /\ toast_message' = "generate_failed"
  /\ isGenerating' = FALSE
  /\ gen_pc' = "idle"
  /\ gen_products' = <<>>
  /\ UNCHANGED <<clockVars, salesVars, otherVars, storeVars, saveVars, forecasts, gen_dow,
                 override_input, edits>>

\* Lines 47-51: the read returns no active product.
GenerateNoProducts ==
  /\ gen_pc = "products"
  /\ SelectActiveProducts(products_active) = <<>>
  /\ gen_products' = <<>>
  /\ toast' = "error"
  /\ toast_message' = "no_active_products"
  /\ isGenerating' = FALSE
  /\ gen_pc' = "idle"
  /\ UNCHANGED <<clockVars, salesVars, otherVars, storeVars, saveVars, forecasts, gen_dow,
                 override_input, edits>>

\* Lines 40-62: the read returns the active products; sales_data is asked.
GenerateProductsRead ==
  /\ gen_pc = "products"
  /\ SelectActiveProducts(products_active) # <<>>
  /\ gen_products' = SelectActiveProducts(products_active)
  /\ gen_pc' = "sales"
  /\ UNCHANGED <<clockVars, salesVars, otherVars, storeVars, saveVars, forecasts, isGenerating,
                 toast, toast_message, gen_dow, override_input, edits>>

\* Mutant: the error handler also empties the forecasts.
GenerateSalesErrorClearing ==
  /\ gen_pc = "sales"
  /\ forecasts' = <<>>
  /\ override_input' = <<>>
  /\ toast' = "error"
  /\ toast_message' = "generate_failed"
  /\ isGenerating' = FALSE
  /\ gen_pc' = "idle"
  /\ gen_products' = <<>>
  /\ UNCHANGED <<clockVars, salesVars, otherVars, storeVars, saveVars, gen_dow, edits>>

\* Lines 64, 123-128: the read of sales_data returns an error.
GenerateSalesError ==
  /\ gen_pc = "sales"
  /\ toast' = "error"
  /\ toast_message' = "generate_failed"
  /\ isGenerating' = FALSE
  /\ gen_pc' = "idle"
  /\ gen_products' = <<>>
  /\ UNCHANGED <<clockVars, salesVars, otherVars, storeVars, saveVars, forecasts, gen_dow,
                 override_input, edits>>

\* Mutant: a new item takes the override of the previous item of its key.
GenerateComputedKeepingOverrides ==
  /\ gen_pc = "sales"
  /\ LET salesData    == SelectSalesData(sales_data, now)
         newForecasts == NewForecasts(gen_products, salesData, gen_dow, tz)
         Previous(item) == {j \in 1..Len(forecasts) :
                              /\ forecasts[j].product_id = item.product_id
                              /\ forecasts[j].time_period = item.time_period}
     IN  /\ forecasts' =
               [i \in 1..Len(newForecasts) |->
                  IF Previous(newForecasts[i]) = {} THEN newForecasts[i]
                  ELSE [newForecasts[i] EXCEPT !.manual_override =
                          forecasts[CHOOSE j \in Previous(newForecasts[i]) : TRUE]
                            .manual_override]]
         /\ override_input' = [i \in 1..Len(newForecasts) |-> <<>>]
         /\ toast' = ToastTypeOfForecasts(newForecasts)
         /\ toast_message' = ToastMessageOfForecasts(newForecasts)
  /\ isGenerating' = FALSE
  /\ gen_pc' = "idle"
  /\ gen_products' = <<>>
  /\ UNCHANGED <<clockVars, salesVars, otherVars, storeVars, saveVars, gen_dow, edits>>

\* Lines 58-122, 126-128: the read returns; the forecasts are computed and set.
GenerateComputed ==
  /\ gen_pc = "sales"
  /\ LET salesData    == SelectSalesData(sales_data, now)
         newForecasts == NewForecasts(gen_products, salesData, gen_dow, tz)
     IN  /\ forecasts' = newForecasts
         /\ override_input' = [i \in 1..Len(newForecasts) |-> <<>>]
         /\ toast' = ToastTypeOfForecasts(newForecasts)
         /\ toast_message' = ToastMessageOfForecasts(newForecasts)
  /\ isGenerating' = FALSE
  /\ gen_pc' = "idle"
  /\ gen_products' = <<>>
  /\ UNCHANGED <<clockVars, salesVars, otherVars, storeVars, saveVars, gen_dow, edits>>

(***************************************************************************)
(* Products.tsx:47-70  handleDelete: the soft delete of a product.         *)
(***************************************************************************)
\* Mutant: the delete of a product takes its plan entries with it.
DeactivateCascading(pid) ==
  /\ products_active[pid]
  /\ products_active' = [products_active EXCEPT ![pid] = FALSE]
  /\ production_plans' =
       LET keep == {r \in BagToSet(production_plans) : r.product_id # pid}
       IN  [r \in keep |-> production_plans[r]]
  /\ UNCHANGED <<clockVars, salesVars, otherVars, sales_data, genVars, saveVars,
                 forecasts, toast, toast_message, override_input, edits>>

Deactivate(pid) ==
  /\ products_active[pid]
  /\ products_active' = [products_active EXCEPT ![pid] = FALSE]
  /\ UNCHANGED <<clockVars, salesVars, otherVars, sales_data, production_plans, genVars, saveVars,
                 forecasts, toast, toast_message, override_input, edits>>

(***************************************************************************)
(* updateManualOverride (Forecast.tsx:183-194), called by the onChange of  *)
(* the override field of item i (Forecast.tsx:289).                        *)
(***************************************************************************)
UpdateManualOverride(i, value) ==
  /\ edits < MaxEdits
  /\ i \in 1..Len(forecasts)
  /\ forecasts' = WithManualOverride(forecasts, forecasts[i].product_id,
                                     forecasts[i].time_period, value)
  /\ override_input' = [override_input EXCEPT ![i] = value]
  /\ edits' = edits + 1
  /\ UNCHANGED <<clockVars, salesVars, otherVars, storeVars, genVars, saveVars, toast, toast_message>>

(***************************************************************************)
(* saveProductionPlan (Forecast.tsx:132-180).                              *)
(***************************************************************************)
\* What a run of generateForecasts sets over the stores as they are.
FreshForecasts ==
  NewForecasts(SelectActiveProducts(products_active),
               SelectSalesData(sales_data, now), TomorrowDayOfWeek(now, tz), tz)

\* Lines 133-136: nothing to save.
SaveNothing ==
  /\ ~isSaving
  /\ Len(forecasts) = 0
  /\ toast' = "error"
  /\ toast_message' = "no_forecast_to_save"
  /\ UNCHANGED <<clockVars, salesVars, otherVars, storeVars, genVars, saveVars, forecasts,
                 override_input, edits>>

\* Mutant: the run goes to its insert without a delete.
SaveStartWithoutDelete ==
  /\ ~isSaving
  /\ Len(forecasts) # 0
  /\ saves < MaxSaves
  /\ isSaving' = TRUE
  /\ save_rows' = ProductionPlans(TomorrowStr(now), forecasts)
  /\ save_date' = TomorrowStr(now)
  /\ save_pc' = "insert"
  /\ saves' = saves + 1
  /\ save_prior' = production_plans
  /\ save_result' = "none"
  /\ UNCHANGED <<clockVars, salesVars, otherVars, storeVars, genVars, forecasts, toast, toast_message, plain_plan,
                 override_input, edits>>

\* Lines 138-154: the rows are built and the delete is asked.
SaveStart ==
  /\ ~isSaving
  /\ Len(forecasts) # 0
  /\ saves < MaxSaves
  /\ isSaving' = TRUE
  /\ save_rows' = ProductionPlans(TomorrowStr(now), forecasts)
  /\ save_date' = TomorrowStr(now)
  /\ save_pc' = "delete"
  /\ saves' = saves + 1
  /\ save_prior' = production_plans
  /\ save_result' = "none"
  /\ UNCHANGED <<clockVars, salesVars, otherVars, storeVars, genVars, forecasts, toast, toast_message, plain_plan,
                 override_input, edits>>

\* Lines 151-159: the delete is applied; the insert is asked.
SaveDeleted ==
  /\ save_pc = "delete"
  /\ production_plans' = DeletePlansOn(production_plans, save_date)
  /\ save_pc' = "insert"
  /\ UNCHANGED <<clockVars, salesVars, otherVars, products_active, sales_data, genVars, forecasts,
                 toast, toast_message, isSaving, save_rows, save_date, saves, save_prior,
                 save_result, plain_plan, override_input, edits>>

\* Lines 151-159: the delete returns an error, which is not looked at; the
\* insert is asked.
SaveDeleteError ==
  /\ save_pc = "delete"
  /\ save_pc' = "insert"
  /\ UNCHANGED <<clockVars, salesVars, otherVars, storeVars, genVars, forecasts, toast, toast_message, isSaving,
                 save_rows, save_date, saves, save_prior, save_result, plain_plan,
                 override_input, edits>>

\* Mutant: the insert writes the rows of the items as they are when it is
\* applied.
SaveInsertedOfCurrentItems ==
  /\ save_pc = "insert"
  /\ production_plans' = InsertPlans(production_plans,
                                     ProductionPlans(save_date, forecasts))
  /\ toast' = "success"
  /\ toast_message' = "plan_saved"
  /\ save_result' = "success"
  /\ plain_plan' = Undefined
  /\ isSaving' = FALSE
  /\ save_pc' = "idle"
  /\ UNCHANGED <<clockVars, salesVars, otherVars, products_active, sales_data, genVars, forecasts,
                 save_rows, save_date, saves, save_prior, override_input, edits>>

\* Lines 157-159, 171-173, 177-179: the insert is applied.
SaveInserted ==
  /\ save_pc = "insert"
  /\ production_plans' = InsertPlans(production_plans, save_rows)
  /\ toast' = "success"
  /\ toast_message' = "plan_saved"
  /\ save_result' = "success"
  /\ plain_plan' =
       IF save_rows # ProductionPlans(save_date, FreshForecasts) THEN Undefined
       ELSE IF plain_plan # Undefined THEN plain_plan
       ELSE Some(PlansOn(production_plans', save_date))
  /\ isSaving' = FALSE
  /\ save_pc' = "idle"
  /\ UNCHANGED <<clockVars, salesVars, otherVars, products_active, sales_data, genVars, forecasts,
                 save_rows, save_date, saves, save_prior, override_input, edits>>

\* Mutant: the failure path leaves isSaving set.
SaveInsertErrorStayingBusy ==
  /\ save_pc = "insert"
  /\ toast' = "error"
  /\ toast_message' = "save_failed"
  /\ save_result' = "error"
  /\ plain_plan' = Undefined
  /\ save_pc' = "idle"
  /\ UNCHANGED <<clockVars, salesVars, otherVars, storeVars, genVars, forecasts, save_rows,
                 save_date, saves, save_prior, override_input, edits, isSaving>>

\* Lines 161-170, 174-179: the insert returns an error; whatever its
\* message, the toast is an error.
SaveInsertError ==
  /\ save_pc = "insert"
  /\ toast' = "error"
  /\ toast_message' = "save_failed"
  /\ save_result' = "error"
  /\ plain_plan' = Undefined
  /\ isSaving' = FALSE
  /\ save_pc' = "idle"
  /\ UNCHANGED <<clockVars, salesVars, otherVars, storeVars, genVars, forecasts, save_rows,
                 save_date, saves, save_prior, override_input, edits>>

(***************************************************************************)
(* saveProductionPlan (Forecast.tsx:132-180) of a second caller: another   *)
(* open Forecast page with items of its own, over a store that answers     *)
(* every call.                                                             *)
(***************************************************************************)
\* The items the second caller's page may hold: those of a run of
\* generateForecasts, or those with the first of them overridden.
OtherCallerForecasts ==
  IF FreshForecasts = <<>> THEN {}
  ELSE {FreshForecasts,
        WithManualOverride(FreshForecasts, FreshForecasts[1].product_id,
                           FreshForecasts[1].time_period, <<"5">>)}

\* Lines 138-154: the rows are built and the delete is asked.
OtherSaveStart(items) ==
  /\ other_pc = "idle"
  /\ other_saves < MaxOtherSaves
  /\ Len(items) # 0
  /\ other_rows' = ProductionPlans(TomorrowStr(now), items)
  /\ other_date' = TomorrowStr(now)
  /\ other_pc' = "delete"
  /\ other_saves' = other_saves + 1
  /\ other_result' = "none"
  /\ UNCHANGED <<clockVars, salesVars, storeVars, genVars, saveVars, forecasts,
                 toast, toast_message, override_input, edits>>

\* Lines 151-159: the delete is applied; the insert is asked.
OtherSaveDeleted ==
  /\ other_pc = "delete"
  /\ production_plans' = DeletePlansOn(production_plans, other_date)
  /\ other_pc' = "insert"
  /\ UNCHANGED <<clockVars, salesVars, products_active, sales_data, genVars,
                 saveVars, forecasts, toast, toast_message, override_input,
                 edits, other_rows, other_date, other_saves, other_result>>

\* Lines 157-159, 171-173: the insert is applied.
OtherSaveInserted ==
  /\ other_pc = "insert"
  /\ production_plans' = InsertPlans(production_plans, other_rows)
  /\ other_result' = "success"
  /\ other_pc' = "idle"
  /\ UNCHANGED <<clockVars, salesVars, products_active, sales_data, genVars,
                 saveVars, forecasts, toast, toast_message, override_input,
                 edits, other_rows, other_date, other_saves>>

OtherSave ==
  \/ \E items \in OtherCallerForecasts : OtherSaveStart(items)
  \/ OtherSaveDeleted
  \/ OtherSaveInserted

(***************************************************************************)
(* The Sales page (Sales.tsx) over the sales_data table.                   *)
(***************************************************************************)
\* The state of the Forecast page, which the Sales page leaves alone.
forecastPageVars == <<forecasts, toast, toast_message, override_input, edits,
                      genVars, saveVars>>

\* The values of the form's fields.
FormProducts == {ProductsByName[1], ""}
FormTimePeriods == {TIME_PERIODS[1], TIME_PERIODS[2], ""}
FormDates == {Today - 1, Today}
QuantityTexts == { <<>>, <<"3">>, <<"5">>, <<"0">> }

\* An element of salesData: a row with its id.
SalesEntry(id, sale) == [id |-> id, sale |-> sale]

\* Sales.tsx:71-78  the rows of a date, with their ids.
SelectSalesOn(table, ids, date) ==
  {SalesEntry(ids[r], r) : r \in {x \in table : x.sale_date = date}}

\* Mutant: the table has no unique index.
NoUniqueIndex(table, ids, row, id) == FALSE

\* create-sales-table.sql:20-21  a row other than the one of the given id
\* holds the (product_id, sale_date, time_period) of row.
UniqueViolation(table, ids, row, id) ==
  \E r \in table :
    /\ ids[r] # id
    /\ r.product_id = row.product_id
    /\ r.sale_date = row.sale_date
    /\ r.time_period = row.time_period

\* Sales.tsx:92-129  validateForm: the fields of newErrors.
NewErrors(productId, timePeriod, quantityText) ==
  LET quantity  == ParseInt(quantityText)
      duplicate == /\ editingId = Undefined
                   /\ productId # "" /\ timePeriod # ""
                   /\ \E e \in sales_entries :
                        /\ e.sale.product_id = productId
                        /\ e.sale.time_period = timePeriod
                        /\ e.sale.sale_date = form_date
  IN  (IF productId = "" \/ duplicate THEN {"product_id"} ELSE {})
        \cup (IF timePeriod = "" THEN {"time_period"} ELSE {})
        \cup (IF quantityText = <<>> \/ quantity = Undefined THEN {"quantity_sold"}
              ELSE IF quantity[1] <= 0 THEN {"quantity_sold"} ELSE {})

\* Mutant: an update writes a new row and leaves the edited one.
HandleSubmitInserting(productId, timePeriod, quantityText, stored, fetched) ==
  /\ submits < MaxSubmits
  /\ submits' = submits + 1
  /\ sales_call' = "handleSubmit"
  /\ add_of_held' = /\ editingId = Undefined
                    /\ \E r \in sales_data : /\ r.product_id = productId
                                             /\ r.time_period = timePeriod
                                             /\ r.sale_date = form_date
  /\ LET newErrors == NewErrors(productId, timePeriod, quantityText)
     IN  IF newErrors # {}
         THEN /\ form_errors' = newErrors
              /\ UNCHANGED <<sales_data, sales_ids, next_id, sales_entries,
                             editingId, sales_toast>>
         ELSE LET salesEntry == Sale(productId, form_date, timePeriod,
                                     ParseInt(quantityText)[1])
                  adding     == editingId = Undefined
                  id         == IF adding THEN next_id ELSE editingId[1]
                  old        == {r \in sales_data : sales_ids[r] = id}
                  written    == IF adding THEN sales_data \cup {salesEntry}
                                ELSE IF old = {} THEN sales_data
                                ELSE sales_data \cup {salesEntry}
              IN  /\ form_errors' = {}
                  /\ IF ~stored \/ UniqueViolation(sales_data, sales_ids, salesEntry, id)
                     THEN /\ sales_toast' = IF stored THEN "unique_violation"
                                            ELSE "store_error"
                          /\ UNCHANGED <<sales_data, sales_ids, next_id,
                                         sales_entries, editingId>>
                     ELSE /\ sales_data' = written
                          /\ sales_ids' = [r \in written |->
                                             IF r = salesEntry /\ r \notin sales_data THEN next_id
                                             ELSE sales_ids[r]]
                          /\ next_id' = IF adding THEN next_id + 1 ELSE next_id
                          /\ editingId' = Undefined
                          /\ sales_entries' =
                               IF fetched THEN SelectSalesOn(sales_data', sales_ids', form_date)
                               ELSE sales_entries
                          /\ sales_toast' = IF ~fetched THEN "load_failed"
                                            ELSE IF adding THEN "added" ELSE "updated"
  /\ UNCHANGED <<clockVars, otherVars, forecastPageVars, products_active,
                 production_plans, form_date>>

\* Sales.tsx:131-191  handleSubmit with the given fields; stored tells
\* whether the store is reached by the write, fetched by the refresh.
HandleSubmit(productId, timePeriod, quantityText, stored, fetched) ==
  /\ submits < MaxSubmits
  /\ submits' = submits + 1
  /\ sales_call' = "handleSubmit"
  /\ add_of_held' = /\ editingId = Undefined
                    /\ \E r \in sales_data : /\ r.product_id = productId
                                             /\ r.time_period = timePeriod
                                             /\ r.sale_date = form_date
  /\ LET newErrors == NewErrors(productId, timePeriod, quantityText)
     IN  IF newErrors # {}
         THEN /\ form_errors' = newErrors
              /\ UNCHANGED <<sales_data, sales_ids, next_id, sales_entries,
                             editingId, sales_toast>>
         ELSE LET salesEntry == Sale(productId, form_date, timePeriod,
                                     ParseInt(quantityText)[1])
                  adding     == editingId = Undefined
                  id         == IF adding THEN next_id ELSE editingId[1]
                  old        == {r \in sales_data : sales_ids[r] = id}
                  written    == IF adding THEN sales_data \cup {salesEntry}
                                ELSE IF old = {} THEN sales_data
                                ELSE (sales_data \ old) \cup {salesEntry}
              IN  /\ form_errors' = {}
                  /\ IF ~stored \/ UniqueViolation(sales_data, sales_ids, salesEntry, id)
                     THEN /\ sales_toast' = IF stored THEN "unique_violation"
                                            ELSE "store_error"
                          /\ UNCHANGED <<sales_data, sales_ids, next_id,
                                         sales_entries, editingId>>
                     ELSE /\ sales_data' = written
                          /\ sales_ids' = [r \in written |->
                                             IF r = salesEntry THEN id ELSE sales_ids[r]]
                          /\ next_id' = IF adding THEN next_id + 1 ELSE next_id
                          /\ editingId' = Undefined
                          /\ sales_entries' =
                               IF fetched THEN SelectSalesOn(sales_data', sales_ids', form_date)
                               ELSE sales_entries
                          /\ sales_toast' = IF ~fetched THEN "load_failed"
                                            ELSE IF adding THEN "added" ELSE "updated"
  /\ UNCHANGED <<clockVars, otherVars, forecastPageVars, products_active,
                 production_plans, form_date>>

\* Sales.tsx:193-205  handleEdit of a listed entry.
HandleEdit(entry) ==
  /\ entry \in sales_entries
  /\ sales_call' = "handleEdit"
  /\ add_of_held' = FALSE
  /\ editingId' = Some(entry.id)
  /\ form_date' = entry.sale.sale_date
  /\ form_errors' = {}
  /\ UNCHANGED <<clockVars, otherVars, forecastPageVars, storeVars, sales_ids,
                 next_id, sales_entries, sales_toast, submits>>

\* Sales.tsx:207-216  handleCancelEdit.
HandleCancelEdit ==
  /\ editingId # Undefined
  /\ sales_call' = "handleCancelEdit"
  /\ add_of_held' = FALSE
  /\ editingId' = Undefined
  /\ form_errors' = {}
  /\ UNCHANGED <<clockVars, otherVars, forecastPageVars, storeVars, sales_ids,
                 next_id, sales_entries, form_date, sales_toast, submits>>

\* Sales.tsx:218-234  handleDelete of a listed entry, confirmed.
HandleDelete(entry, stored, fetched) ==
  /\ submits < MaxSubmits
  /\ submits' = submits + 1
  /\ sales_call' = "handleDelete"
  /\ add_of_held' = FALSE
  /\ entry \in sales_entries
  /\ IF ~stored
     THEN /\ sales_toast' = "delete_failed"
          /\ UNCHANGED <<sales_data, sales_ids, sales_entries>>
     ELSE LET kept == {r \in sales_data : sales_ids[r] # entry.id}
          IN  /\ sales_data' = kept
              /\ sales_ids' = [r \in kept |-> sales_ids[r]]
              /\ sales_entries' =
                   IF fetched THEN SelectSalesOn(sales_data', sales_ids', form_date)
                   ELSE sales_entries
              /\ sales_toast' = IF fetched THEN "deleted" ELSE "load_failed"
  /\ UNCHANGED <<clockVars, otherVars, forecastPageVars, products_active,
                 production_plans, next_id, editingId, form_date, form_errors>>

\* Sales.tsx:236-240  handleDateChange to another date.
HandleDateChange(newDate, fetched) ==
  /\ newDate # form_date
  /\ sales_call' = "handleDateChange"
  /\ add_of_held' = FALSE
  /\ form_date' = newDate
  /\ sales_entries' = IF fetched THEN SelectSalesOn(sales_data, sales_ids, newDate)
                      ELSE sales_entries
  /\ sales_toast' = IF fetched THEN sales_toast ELSE "load_failed"
  /\ UNCHANGED <<clockVars, otherVars, forecastPageVars, storeVars, sales_ids,
                 next_id, editingId, form_errors, submits>>

\* The ledgers the Sales page is opened over.
SalesLedgers ==
  { {},
    {Sale("p1", Today, "Breakfast", 3)},
    {Sale("p1", Today, "Breakfast", 3), Sale("p1", Today - 1, "Breakfast", 5)} }

\* Sales.tsx:46-49  the page has mounted: the sales of today are loaded,
\* or the load has failed.
SalesInit ==
  /\ PageInit
  /\ tz \in PlanTimeZones
  /\ OtherCallerInit
  /\ now \in Instants(PlanHoursOfDay)
  /\ products_active = [pid \in Products |-> TRUE]
  /\ sales_data \in SalesLedgers
  /\ production_plans = EmptyBag
  /\ SalesStoreInit
  /\ editingId = Undefined
  /\ form_date = UTCDate(now)
  /\ form_errors = {}
  /\ submits = 0
  /\ add_of_held = FALSE
  /\ sales_call = "none"
  /\ \E fetched \in BOOLEAN :
       /\ sales_entries = IF fetched THEN SelectSalesOn(sales_data, sales_ids, form_date)
                          ELSE {}
       /\ sales_toast = IF fetched THEN "none" ELSE "load_failed"

\* The catalog, ledgers and plans the two callers work over.
ShopInit ==
  /\ PageInit
  /\ tz \in PlanTimeZones
  /\ now \in Instants(PlanHoursOfDay)
  /\ products_active = [pid \in Products |-> TRUE]
  /\ sales_data \in PlanLedgers
  /\ production_plans \in InitialPlans
  /\ SalesStoreInit /\ SalesPageInit /\ OtherCallerInit


\* The ledgers of the runs in several time zones: observations on the
\* weekday of the nominal target day and on the weekdays beside it.
ZoneLedgers ==
  { {Sale("p1", T - 7, "Breakfast", 8)},
    {Sale("p1", T - 8, "Breakfast", 3)},
    {Sale("p1", T - 6, "Breakfast", 2)},
    {Sale("p1", T - 7, "Breakfast", 8), Sale("p2", T - 8, "Lunch", 3),
     Sale("p2", T - 6, "Afternoon", 2)} }

\* The page in any of the time zones and at either hour, over a store that
\* answers every call.
ZoneInit ==
  /\ PageInit
  /\ now \in Instants(HoursOfDay)
  /\ products_active = [pid \in Products |-> TRUE]
  /\ sales_data \in ZoneLedgers
  /\ production_plans \in InitialPlans
  /\ SalesStoreInit /\ SalesPageInit /\ OtherCallerInit
(***************************************************************************)
(* Specifications.                                                         *)
(***************************************************************************)
Generate ==
  \/ GenerateStart
  \/ GenerateProductsError
  \/ GenerateNoProducts
  \/ GenerateProductsRead
  \/ GenerateSalesError
  \/ GenerateComputed

Save ==
  \/ SaveNothing
  \/ SaveStart
  \/ SaveDeleted
  \/ SaveDeleteError
  \/ SaveInserted
  \/ SaveInsertError

\* The calculation over a wide range of ledgers.
CalcNext ==
  \/ Generate
  \/ \E pid \in Products : Deactivate(pid)

CalcSpec == CalcInit /\ [][CalcNext]_vars

\* The whole page: calculation, overrides and commit.
Next ==
  \/ Generate
  \/ \E i \in 1..Len(forecasts), value \in OverrideInputs :
       UpdateManualOverride(i, value)
  \/ Save

Spec == Init /\ [][Next]_vars

\* The Sales page alone.
SalesNext ==
  \/ \E productId \in FormProducts, timePeriod \in FormTimePeriods,
        quantityText \in QuantityTexts, stored \in BOOLEAN, fetched \in BOOLEAN :
       HandleSubmit(productId, timePeriod, quantityText, stored, fetched)
  \/ \E entry \in sales_entries : HandleEdit(entry)
  \/ HandleCancelEdit
  \/ \E entry \in sales_entries, stored \in BOOLEAN, fetched \in BOOLEAN :
       HandleDelete(entry, stored, fetched)
  \/ \E newDate \in FormDates, fetched \in BOOLEAN :
       HandleDateChange(newDate, fetched)

SalesSpec == SalesInit /\ [][SalesNext]_vars

\* The Forecast page beside a second caller and the Products page, over a
\* store that answers every call.
ShopNext ==
  \/ GenerateStart
  \/ GenerateProductsRead
  \/ GenerateNoProducts
  \/ GenerateComputed
  \/ SaveStart
  \/ SaveDeleted
  \/ SaveInserted
  \/ OtherSave
  \/ \E pid \in Products : Deactivate(pid)

ShopSpec == ShopInit /\ [][ShopNext]_vars

\* The Forecast page in several time zones: calculation and commit.
ZoneNext ==
  \/ GenerateStart
  \/ GenerateProductsRead
  \/ GenerateComputed
  \/ SaveStart
  \/ SaveDeleted
  \/ SaveInserted

ZoneSpec == ZoneInit /\ [][ZoneNext]_vars

\* The steps by which a call to the store made by generateForecasts returns.
GenerateReturns ==
  \/ GenerateProductsError
  \/ GenerateNoProducts
  \/ GenerateProductsRead
  \/ GenerateSalesError
  \/ GenerateComputed

\* The steps by which a call to the store made by saveProductionPlan returns.
SaveReturns ==
  \/ SaveDeleteError
  \/ SaveDeleted
  \/ SaveInsertError
  \/ SaveInserted

\* The two buttons of the page.
LiveNext ==
  \/ Generate
  \/ Save

\* The page over a store that returns every call made to it: a run that
\* awaits a read, the delete or the insert is resumed in the end.
LiveSpec ==
  /\ Init
  /\ [][LiveNext]_vars
  /\ WF_vars(GenerateReturns)
  /\ WF_vars(SaveReturns)

(***************************************************************************)
(* Properties of the calculation.                                          *)
(***************************************************************************)
\* The elements of a sequence.
Range(seq) == {seq[i] : i \in 1..Len(seq)}

\* The observations of the ledger that the calculator matches to product
\* pid and time period tp: read in the lookback window, and on the weekday
\* of the target day as the calculator derives both weekdays.
Matching(pid, tp) ==
  {o \in sales_data :
     /\ o.product_id = pid
     /\ o.time_period = tp
     /\ o.sale_date >= FourWeeksAgoStr(now)
     /\ SaleDayOfWeek(o.sale_date, tz) = TomorrowDayOfWeek(now, tz)}

\* The (at most three) latest of them.
Retained(pid, tp) ==
  {o \in Matching(pid, tp) :
     Cardinality({x \in Matching(pid, tp) : x.sale_date > o.sale_date}) < MaxWeeks}

RECURSIVE SumOfQuantities(_)
SumOfQuantities(rows) ==
  IF rows = {} THEN 0
  ELSE LET r == CHOOSE x \in rows : TRUE
       IN  r.quantity_sold + SumOfQuantities(rows \ {r})

\* f is the least integer with f * k >= total.
IsCeilingOfMean(f, total, k) == f * k >= total /\ (f - 1) * k < total

\* C1: every forecast item's forecast_quantity is the ceiling of the mean of
\* the retained quantities of its product and time period (at most three):
\* the least integer f with f * k >= their sum; 10, 14, 12 give 12.
C1_CeilingOfMean ==
  /\ \A i \in 1..Len(forecasts) :
       LET kept == Retained(forecasts[i].product_id, forecasts[i].time_period)
       IN  /\ Cardinality(kept) \in 1..MaxWeeks
           /\ IsCeilingOfMean(forecasts[i].forecast_quantity,
                              SumOfQuantities(kept), Cardinality(kept))
  /\ CeilOfAverage(10 + 14 + 12, 3) = 12

\* C1 witness: an item over three retained quantities whose mean is no
\* integer, so that the forecast lies above the mean.
C1_Witness ==
  \E i \in 1..Len(forecasts) :
    LET kept == Retained(forecasts[i].product_id, forecasts[i].time_period)
    IN  /\ Cardinality(kept) = MaxWeeks
        /\ forecasts[i].forecast_quantity * MaxWeeks > SumOfQuantities(kept)

\* The observations that went into item: the retained rows of the
\* calculator's own filter.
Contributors(item) ==
  Range(RecentSales(RelevantSales(SelectSalesData(sales_data, now),
                                  item.product_id, item.time_period,
                                  TomorrowDayOfWeek(now, tz), tz)))

\* The target day: the local calendar day of tomorrow, which the page shows
\* as the forecast date, or the UTC day it writes as plan_date.
TargetDays == {LocalDate(Tomorrow(now), tz), TomorrowStr(now)}

\* C2: every observation that contributes to a forecast item has the item's
\* product and time period and a date on the same weekday as the target day
\* (whichever of the two days is taken as the target).
C2_SameProductSlotWeekday ==
  \A i \in 1..Len(forecasts) :
    \A o \in Contributors(forecasts[i]) :
      /\ o.product_id = forecasts[i].product_id
      /\ o.time_period = forecasts[i].time_period
      /\ \E d \in TargetDays : DayOfWeek(o.sale_date) = DayOfWeek(d)

\* The (product, time period) keys of a list of items, in order.
Keys(items) == [i \in 1..Len(items) |-> <<items[i].product_id, items[i].time_period>>]
NoRepeat(seq) == \A i, j \in 1..Len(seq) : seq[i] = seq[j] => i = j

\* C3: the products a run reads are exactly the active ones, and a run that
\* completes sets exactly one item for each pair of a product it read and a
\* time period with at least one matching observation, and no other item.
C3_ExactlyThePairsWithHistory ==
  [][/\ (gen_pc = "products" /\ gen_pc' = "sales")
          => Range(gen_products') = {pid \in Products : products_active[pid]}
     /\ (gen_pc = "sales" /\ gen_pc' = "idle" /\ toast' # "error")
          => /\ NoRepeat(Keys(forecasts'))
             /\ Range(Keys(forecasts')) =
                  {k \in Range(gen_products) \X TimePeriods :
                     Matching(k[1], k[2]) # {}}]_vars

\* C3 witness: after a successful run an inactive product with matching
\* history has no item, an active product lacks an item where it has no
\* history, and a low-confidence item is in the set.
C3_Witness ==
  /\ gen_pc = "idle" /\ toast = "success"
  /\ \E pid \in Products, tp \in TimePeriods :
       /\ ~products_active[pid]
       /\ Matching(pid, tp) # {}
       /\ \A i \in 1..Len(forecasts) : forecasts[i].product_id # pid
  /\ \E pid \in Products, tp \in TimePeriods :
       /\ products_active[pid]
       /\ Matching(pid, tp) = {}
       /\ \E i \in 1..Len(forecasts) : forecasts[i].product_id = pid
       /\ <<pid, tp>> \notin Range(Keys(forecasts))
  /\ \E i \in 1..Len(forecasts) : forecasts[i].has_warning

\* C4: every forecast item has an integer forecast_quantity >= 0,
\* weeks_of_data in {1, 2, 3}, and has_warning exactly when weeks_of_data < 3.
C4_ItemInvariant ==
  \A i \in 1..Len(forecasts) :
    /\ forecasts[i].forecast_quantity \in Nat
    /\ forecasts[i].weeks_of_data \in {1, 2, 3}
    /\ forecasts[i].has_warning <=> (forecasts[i].weeks_of_data < 3)

\* C4 witness: an item made from more than three matching observations, its
\* override edited.
C4_Witness ==
  \E i \in 1..Len(forecasts) :
    /\ Cardinality(Matching(forecasts[i].product_id, forecasts[i].time_period)) > 3
    /\ forecasts[i].weeks_of_data = 3
    /\ forecasts[i].manual_override # Undefined

(***************************************************************************)
(* Properties of the commit and of the overrides.                          *)
(***************************************************************************)
\* The (plan_date, product, time period) key of a plan row.
PlanKey(r) == <<r.plan_date, r.product_id, r.time_period>>

\* A run of saveProductionPlan has finished and nothing was saved since.
SaveFinished == save_pc = "idle" /\ save_result # "none"

\* C5: the production-plan table holds at most one entry for each
\* (plan_date, product, time period), whatever steps of the saves failed.
C5_OneEntryPerKey ==
  \A r \in BagToSet(production_plans) :
    /\ production_plans[r] = 1
    /\ \A x \in BagToSet(production_plans) : PlanKey(x) = PlanKey(r) => x = r

\* C6: when a save has reported success, the entries of its date are exactly
\* the rows made from the committed items: what was there before is gone.
C6_SuccessMeansExactReplace ==
  (SaveFinished /\ save_result = "success")
    => PlansOn(production_plans, save_date) = RowsToBag(save_rows)

\* C7: successive successful commits of freshly generated forecasts, for the
\* same date, history and products, leave the plan the first of them left.
C7_RepeatedCycleIsIdempotent ==
  (SaveFinished /\ save_result = "success" /\ plain_plan # Undefined)
    => PlansOn(production_plans, save_date) = plain_plan[1]

\* The forecast the calculation gives for a product and time period.
IsComputedForecast(f, pid, tp) ==
  IsCeilingOfMean(f, SumOfQuantities(Retained(pid, tp)),
                  Cardinality(Retained(pid, tp)))

\* C8: a save makes one row per item, with the computed value as
\* forecast_quantity and the override, if any, as adjusted_quantity, and a
\* successful save persists these rows; the final quantity of an item is its
\* override if it has one and its forecast otherwise.
C8_OverridePersistedBesideForecast ==
  [][/\ (save_pc = "idle" /\ save_pc' = "delete")
          => /\ Len(save_rows') = Len(forecasts)
             /\ \A i \in 1..Len(forecasts) :
                  LET item == forecasts[i]
                      row  == save_rows'[i]
                  IN  /\ row.product_id = item.product_id
                      /\ row.time_period = item.time_period
                      /\ row.forecast_quantity = item.forecast_quantity
                      /\ IsComputedForecast(row.forecast_quantity,
                                            item.product_id, item.time_period)
                      /\ row.adjusted_quantity = item.manual_override
                      /\ item.manual_override # Undefined
                           => FinalQty(item) = item.manual_override[1]
                      /\ item.manual_override = Undefined
                           => FinalQty(item) = item.forecast_quantity
     /\ (save_pc = "insert" /\ save_result' = "success")
          => \A i \in 1..Len(save_rows) : BagIn(save_rows[i], production_plans')
    ]_vars

\* C8 witness: a forecast of 8 overridden to 5 was saved with success, and
\* the table holds forecast_quantity 8 and adjusted_quantity 5 for it.
C8_Witness ==
  /\ SaveFinished /\ save_result = "success"
  /\ \E i \in 1..Len(forecasts) :
       /\ forecasts[i].forecast_quantity = 8
       /\ forecasts[i].manual_override = Some(5)
       /\ FinalQty(forecasts[i]) = 5
       /\ BagIn(Plan(save_date, forecasts[i].product_id,
                     forecasts[i].time_period, 8, Some(5)), production_plans)

\* The text parses as a non-negative integer.
ParsesAsNonNegativeInteger(txt) ==
  ParseInt(txt) # Undefined /\ ParseInt(txt)[1] >= 0

\* C9: an item carries an override only if the text typed for it parses as
\* a non-negative integer, and then the final quantity is that number; for
\* any other text the final quantity is the forecast; it is never negative.
C9_OnlyNonNegativeOverrides ==
  \A i \in 1..Len(forecasts) :
    /\ ParsesAsNonNegativeInteger(override_input[i])
         => FinalQty(forecasts[i]) = ParseInt(override_input[i])[1]
    /\ ~ParsesAsNonNegativeInteger(override_input[i])
         => /\ forecasts[i].manual_override = Undefined
            /\ FinalQty(forecasts[i]) = forecasts[i].forecast_quantity
    /\ FinalQty(forecasts[i]) >= 0

\* C10: when a save has finished, the entries of its date are exactly those
\* it found or exactly its new rows, and so too when it reported a failure.
C10_NoPartialPlan ==
  SaveFinished
    => \/ PlansOn(production_plans, save_date) = PlansOn(save_prior, save_date)
       \/ PlansOn(production_plans, save_date) = RowsToBag(save_rows)

(***************************************************************************)
(* Properties of the outcomes of a calculation run and of its effects.     *)
(***************************************************************************)
\* C11: a save of an empty forecast set is accepted (no error is signalled)
\* and leaves no plan entry for the target date.
C11_EmptyCommitClearsPlan ==
  [][SaveNothing
       => /\ toast' # "error"
          /\ PlansOn(production_plans', TomorrowStr(now)) = EmptyBag]_vars

\* A step of generateForecasts on which one of its two reads fails.
ReadFails == GenerateProductsError \/ GenerateSalesError

\* C12: when the read of the products or of the sales fails, the run ends,
\* the forecast set is what it was, and the outcome signalled is an error.
C12_ReadFailureAborts ==
  [][ReadFails
       => /\ forecasts' = forecasts
          /\ toast' = "error"
          /\ gen_pc' = "idle" /\ ~isGenerating']_vars

\* C12 witness: a run failed on a read after an earlier run had set items;
\* the items are still there and the toast is an error.
C12_Witness ==
  /\ gen_pc = "idle" /\ toast = "error" /\ saves = 0
  /\ forecasts # <<>>
  /\ forecasts = FreshForecasts

\* C13: a run that finds no active product leaves the forecast set empty
\* and signals an informational outcome, not the error of a failed read.
C13_NoProductsIsInformational ==
  [][GenerateNoProducts => (forecasts' = <<>> /\ toast' = "info")]_vars

\* No pair of a product read by the run and a time period has a matching
\* observation.
NoHistoryAnywhere ==
  \A k \in Range(gen_products) \X TimePeriods : Matching(k[1], k[2]) = {}

\* C14: a run over at least one active product and no matching history for
\* any pair sets the empty forecast set and signals 'info'.
C14_NoHistoryIsInformational ==
  [][(GenerateComputed /\ gen_products # <<>> /\ NoHistoryAnywhere)
       => (forecasts' = <<>> /\ toast' = "info")]_vars

\* C14 witness: over a ledger that is not empty and with an active product,
\* a run has ended with no item and the toast 'info'.
C14_Witness ==
  /\ gen_pc = "idle" /\ toast = "info" /\ forecasts = <<>>
  /\ sales_data # {}
  /\ \E pid \in Products : products_active[pid]

\* C17: no step of generateForecasts, on any of its paths, changes the
\* sales ledger, the product catalog or the persisted production plan.
C17_GenerateOnlyReads ==
  [][gen_pc' # gen_pc => UNCHANGED storeVars]_vars

\* C17 witness: a run has completed with items over stores none of which
\* is empty.
C17_Witness ==
  /\ gen_pc = "idle" /\ toast = "success" /\ saves = 0
  /\ forecasts # <<>>
  /\ sales_data # {} /\ production_plans # EmptyBag
  /\ \E pid \in Products : products_active[pid]

\* The orders in which the store may return rows under ORDER BY sale_date
\* DESC: every arrangement by descending date, rows of equal date in any
\* order.
RECURSIVE DescendingOrders(_)
DescendingOrders(rows) ==
  IF rows = {} THEN {<<>>}
  ELSE LET latest == {r \in rows : \A o \in rows : o.sale_date <= r.sale_date}
       IN  UNION {{<<r>> \o s : s \in DescendingOrders(rows \ {r})} : r \in latest}

\* C20: when more than three observations match an item's product, time
\* period and weekday, the item is made from the three of latest date and
\* has weeks_of_data 3, in whatever order the store returns rows of the
\* same date.
C20_ThreeLatestWhateverTheOrder ==
  \A i \in 1..Len(forecasts) :
    LET pid      == forecasts[i].product_id
        tp       == forecasts[i].time_period
        matching == Matching(pid, tp)
        kept     == Contributors(forecasts[i])
        window   == {r \in sales_data : r.sale_date >= FourWeeksAgoStr(now)}
    IN  Cardinality(matching) > MaxWeeks
          => /\ forecasts[i].weeks_of_data = 3
             /\ Cardinality(kept) = 3
             /\ kept \subseteq matching
             /\ \A o \in kept, x \in matching \ kept : x.sale_date < o.sale_date
             /\ \A s \in DescendingOrders(window) :
                  ForecastItem(pid, tp,
                               RelevantSales(s, pid, tp, TomorrowDayOfWeek(now, tz), tz))
                    = forecasts[i]

\* C20 witness: an item over four matching observations beside a row of
\* another time period on the date of one of them; the dropped observation
\* would have raised the forecast.
C20_Witness ==
  \E i \in 1..Len(forecasts) :
    LET pid      == forecasts[i].product_id
        tp       == forecasts[i].time_period
        matching == Matching(pid, tp)
    IN  /\ Cardinality(matching) > MaxWeeks
        /\ forecasts[i].weeks_of_data = 3
        /\ \E o \in matching, x \in sales_data :
             x.sale_date = o.sale_date /\ x.time_period # tp
        /\ forecasts[i].forecast_quantity
             < CeilOfAverage(SumOfQuantities(matching), Cardinality(matching))

(***************************************************************************)
(* Properties of the sales ledger, of deactivation and of commits by two   *)
(* callers.                                                                *)
(***************************************************************************)
\* C15: whatever is added, updated or deleted from the sales form, no two
\* observations of the ledger share (product, date, time period); an add
\* for a triple the ledger holds is rejected, by the form or by the store,
\* and leaves the ledger as it is.
C15_OneObservationPerTriple ==
  [][/\ UniqueEntry(sales_data) /\ UniqueEntry(sales_data')
     /\ (add_of_held' /\ submits' # submits)
          => /\ sales_data' = sales_data
             /\ sales_ids' = sales_ids
             /\ \/ form_errors' # {}
                \/ sales_toast' \in {"unique_violation", "store_error"}]_vars

\* C15 witness: the page's list is empty though the ledger holds rows of
\* the form's date, so the form could not see the duplicate, and the store
\* has refused the add; two rows of the ledger differ in the date only.
C15_Witness ==
  /\ add_of_held
  /\ sales_toast = "unique_violation"
  /\ sales_entries = {}
  /\ \E a, b \in sales_data :
       /\ a.product_id = b.product_id /\ a.time_period = b.time_period
       /\ a.sale_date # b.sale_date

\* C16: a step that deactivates a product changes that product's active
\* flag and nothing else of the stores: every persisted plan entry stays.
C16_DeactivationKeepsPlans ==
  [][(\E pid \in Products : products_active[pid] /\ ~products_active'[pid])
       => /\ production_plans' = production_plans
          /\ sales_data' = sales_data
          /\ \E pid \in Products :
               products_active' = [products_active EXCEPT ![pid] = FALSE]]_vars

\* C16 witness: a plan with an entry for a product was committed with
\* success, the product is inactive, and the entry is in the table.
C16_Witness ==
  /\ save_pc = "idle" /\ save_result = "success"
  /\ \E pid \in Products :
       /\ ~products_active[pid]
       /\ \E i \in 1..Len(save_rows) :
            /\ save_rows[i].product_id = pid
            /\ BagIn(save_rows[i], production_plans)

\* C18: while a commit is between its delete step and its insert step, no
\* step of another commit for the same date changes the table.
C18_CommitsDoNotOverlap ==
  [][/\ (save_pc = "insert" /\ save_pc' = "insert" /\ other_date = save_date)
          => production_plans' = production_plans
     /\ (other_pc = "insert" /\ other_pc' = "insert" /\ save_date = other_date)
          => production_plans' = production_plans]_vars

\* C19: when the commits of both callers for the same date have finished
\* with success, the entries of the date are exactly the rows of one of the
\* two callers.
C19_LastWriterWins ==
  (/\ save_pc = "idle" /\ save_result = "success"
   /\ other_pc = "idle" /\ other_result = "success"
   /\ save_date = other_date)
    => \/ PlansOn(production_plans, save_date) = RowsToBag(save_rows)
       \/ PlansOn(production_plans, save_date) = RowsToBag(other_rows)

(***************************************************************************)
(* Properties of the lookback window and of the displayed trend.           *)
(***************************************************************************)
\* C21: every observation that contributes to a forecast item is dated
\* before the target day (whichever of the two days is taken as the
\* target) and no more than 28 days before the day of the invocation.
C21_ContributorsInTrailingWindow ==
  \A i \in 1..Len(forecasts) :
    \A o \in Contributors(forecasts[i]) :
      /\ \E d \in TargetDays : o.sale_date < d
      /\ o.sale_date >= UTCDate(now) - LookbackDays

\* C22: the last_week_quantity of every forecast item is the quantity of
\* the matching observation of latest date for its product and time period.
C22_LastWeekIsMostRecent ==
  \A i \in 1..Len(forecasts) :
    \E o \in Matching(forecasts[i].product_id, forecasts[i].time_period) :
      /\ \A x \in Matching(forecasts[i].product_id, forecasts[i].time_period) :
           x.sale_date <= o.sale_date
      /\ forecasts[i].last_week_quantity = o.quantity_sold

\* C22 witness: an item over three retained observations whose latest
\* quantity is neither the forecast nor the quantity of the oldest of them.
C22_Witness ==
  \E i \in 1..Len(forecasts) :
    LET kept == Retained(forecasts[i].product_id, forecasts[i].time_period)
    IN  /\ Cardinality(kept) = MaxWeeks
        /\ forecasts[i].last_week_quantity # forecasts[i].forecast_quantity
        /\ \E o \in kept :
             /\ \A x \in kept : x.sale_date >= o.sale_date
             /\ o.quantity_sold # forecasts[i].last_week_quantity


(***************************************************************************)
(* Properties of the in-memory forecast set.                               *)
(***************************************************************************)
\* C23: a run of generateForecasts that completes its calculation sets
\* exactly the freshly computed items: one item per pair with matching
\* history, each with the computed forecast and with no manual override,
\* whatever items and overrides the set held before.
C23_RunReplacesTheSet ==
  [][(gen_pc = "sales" /\ gen_pc' = "idle" /\ toast' # "error")
       => /\ NoRepeat(Keys(forecasts'))
          /\ Range(Keys(forecasts')) =
               {k \in Range(gen_products) \X TimePeriods : Matching(k[1], k[2]) # {}}
          /\ \A i \in 1..Len(forecasts') :
               /\ forecasts'[i].manual_override = Undefined
               /\ IsComputedForecast(forecasts'[i].forecast_quantity,
                                     forecasts'[i].product_id,
                                     forecasts'[i].time_period)]_vars

\* C23 witness: an item was overridden to 5 and saved so; a later run has
\* completed and the set holds items, none with an override.
C23_Witness ==
  /\ SaveFinished /\ saves = 1 /\ edits = 1
  /\ \E i \in 1..Len(save_rows) : save_rows[i].adjusted_quantity = Some(5)
  /\ gen_pc = "idle"
  /\ forecasts # <<>>
  /\ \A i \in 1..Len(forecasts) : forecasts[i].manual_override = Undefined
  /\ override_input = [i \in 1..Len(forecasts) |-> <<>>]


(***************************************************************************)
(* Properties of the frame of an update, of a commit and of an override.   *)
(***************************************************************************)
\* C24: a submission of the sales form in edit mode leaves the number of
\* observations of the ledger as it was and leaves every observation other
\* than the edited one as it was, with its id.
C24_UpdateInPlace ==
  [][(sales_call' = "handleSubmit" /\ submits' # submits /\ editingId # Undefined)
       => /\ Cardinality(sales_data') = Cardinality(sales_data)
          /\ \A r \in sales_data :
               sales_ids[r] # editingId[1]
                 => (r \in sales_data' /\ sales_ids'[r] = sales_ids[r])
          /\ \A r \in sales_data' \ sales_data : sales_ids'[r] = editingId[1]]_vars

\* C24 witness: the observation of today was updated from 3 to 5 under its
\* id, beside the observation of the day before.
C24_Witness ==
  /\ sales_call = "handleSubmit" /\ sales_toast = "updated"
  /\ sales_data = {Sale("p1", Today, "Breakfast", 5),
                   Sale("p1", Today - 1, "Breakfast", 5)}
  /\ sales_ids[Sale("p1", Today, "Breakfast", 5)] = 1
  /\ sales_ids[Sale("p1", Today - 1, "Breakfast", 5)] = 2


\* C25: no step of saveProductionPlan, successful or failed, changes the
\* plan entries of a date other than the date of the run.
C25_OtherDatesUntouched ==
  [][/\ save_pc' # save_pc
          => \A r \in BagToSet(production_plans) \cup BagToSet(production_plans') :
               r.plan_date # save_date'
                 => CopiesIn(r, production_plans') = CopiesIn(r, production_plans)
     /\ (~isSaving /\ toast_message' = "no_forecast_to_save")
          => production_plans' = production_plans]_vars

\* C25 witness: a save failed after its delete had removed the entries of
\* its date; the entry of the day before is in the table.
C25_Witness ==
  /\ SaveFinished /\ save_result = "error"
  /\ save_date = TomorrowStr(now)
  /\ PlansOn(save_prior, save_date) # EmptyBag
  /\ PlansOn(production_plans, save_date) = EmptyBag
  /\ BagIn(Plan(save_date - 1, "p1", "Breakfast", 3, Undefined), production_plans)


(***************************************************************************)
(* Properties of the order of the steps of a commit.                       *)
(***************************************************************************)
\* C26: every run of saveProductionPlan, a retry after a failure included,
\* issues its delete first and its insert only once the delete has
\* returned: the insert is reached from the awaited delete of the same run
\* and from nowhere else, and rows are added to the table by the insert
\* step alone.
C26_DeleteThenInsert ==
  [][/\ (save_pc = "idle" /\ save_pc' # "idle")
          => (save_pc' = "delete" /\ saves' = saves + 1)
     /\ (save_pc # "insert" /\ save_pc' = "insert")
          => (save_pc = "delete" /\ saves' = saves)
     /\ (save_pc = "delete" /\ save_pc' # "delete") => save_pc' = "insert"
     /\ (\E r \in BagToSet(production_plans') :
           CopiesIn(r, production_plans') > CopiesIn(r, production_plans))
          => (save_pc = "insert" /\ save_pc' = "idle")]_vars

\* C26 witness: after a run that failed, the retry has had its delete
\* applied and is at its insert.
C26_Witness ==
  /\ saves = 2 /\ save_pc = "insert"
  /\ toast_message = "save_failed"
  /\ PlansOn(production_plans, save_date) = EmptyBag
  /\ PlansOn(save_prior, save_date) # EmptyBag


(***************************************************************************)
(* Properties of the dates of a plan.                                      *)
(***************************************************************************)
\* C27: every plan entry persisted by a save of freshly generated forecasts
\* has a plan_date on the weekday of the observations its item was made
\* from, at every instant and in every time zone.
C27_PlanDateOnMatchedWeekday ==
  (SaveFinished /\ save_result = "success" /\ forecasts = FreshForecasts
     /\ save_rows = ProductionPlans(save_date, forecasts))
    => \A i \in 1..Len(forecasts) :
         /\ BagIn(save_rows[i], production_plans)
         /\ \A o \in Contributors(forecasts[i]) :
              DayOfWeek(o.sale_date) = DayOfWeek(save_rows[i].plan_date)


(***************************************************************************)
(* Properties of a commit beside edits and runs of the calculation.        *)
(***************************************************************************)
\* C28: the rows of a run of saveProductionPlan are made from the items and
\* overrides of the moment it starts; no step taken while the run awaits
\* the store changes them, and the insert adds exactly these rows.
C28_RowsOfTheStart ==
  [][/\ (save_pc = "idle" /\ save_pc' = "delete")
          => save_rows' = [i \in 1..Len(forecasts) |->
                             Plan(TomorrowStr(now), forecasts[i].product_id,
                                  forecasts[i].time_period,
                                  forecasts[i].forecast_quantity,
                                  forecasts[i].manual_override)]
     /\ save_pc # "idle" => save_rows' = save_rows
     /\ (save_pc = "insert" /\ save_result' = "success")
          => production_plans' = production_plans (+) RowsToBag(save_rows)]_vars

\* C28 witness: a save of an item overridden to 5 ended with success after
\* a run of the calculation had completed during it and had reset the
\* override; the table holds the row with the override.
C28_Witness ==
  /\ SaveFinished /\ save_result = "success" /\ saves = 1 /\ edits = 1
  /\ toast_message = "plan_saved"
  /\ gen_pc = "idle"
  /\ forecasts # <<>>
  /\ \A i \in 1..Len(forecasts) : forecasts[i].manual_override = Undefined
  /\ \E i \in 1..Len(save_rows) :
       /\ save_rows[i].adjusted_quantity = Some(5)
       /\ BagIn(save_rows[i], production_plans)


\* C29: a call of updateManualOverride leaves the number and the order of
\* the items as they are, leaves every item but the one of the given
\* product and time period as it is, and changes nothing of that item but
\* its manual_override.
C29_OverrideTouchesOneField ==
  [][edits' # edits
       => /\ Len(forecasts') = Len(forecasts)
          /\ \E i \in 1..Len(forecasts) :
               /\ \A j \in 1..Len(forecasts) : j # i => forecasts'[j] = forecasts[j]
               /\ forecasts'[i].product_id = forecasts[i].product_id
               /\ forecasts'[i].time_period = forecasts[i].time_period
               /\ forecasts'[i].forecast_quantity = forecasts[i].forecast_quantity
               /\ forecasts'[i].weeks_of_data = forecasts[i].weeks_of_data
               /\ forecasts'[i].has_warning = forecasts[i].has_warning
               /\ forecasts'[i].last_week_quantity = forecasts[i].last_week_quantity
               /\ DOMAIN forecasts'[i] = DOMAIN forecasts[i]]_vars

\* C29 witness: of two items, of different products and time periods, one
\* has been given an override and the other has none.
C29_Witness ==
  /\ edits = 1
  /\ \E i, j \in 1..Len(forecasts) :
       /\ forecasts[i].product_id # forecasts[j].product_id
       /\ forecasts[i].time_period # forecasts[j].time_period
       /\ forecasts[i].manual_override = Some(5)
       /\ override_input[i] = <<"5">>
       /\ forecasts[j].manual_override = Undefined


(***************************************************************************)
(* Properties of the busy flags.                                           *)
(***************************************************************************)
\* C30: whenever a run of generateForecasts or of saveProductionPlan has
\* set its busy flag, the run later ends with the flag reset, on every
\* path, provided each call to the store returns.
C30_BusyFlagsAreReset ==
  /\ isGenerating ~> (~isGenerating /\ gen_pc = "idle")
  /\ isSaving ~> (~isSaving /\ save_pc = "idle")
  /\ (gen_pc # "idle") ~> ~isGenerating
  /\ (save_pc # "idle") ~> ~isSaving

\* C30 witness: a save has failed at its insert and, after it, a run of the
\* calculation has failed at a read; both flags are reset.
C30_Witness ==
  /\ save_pc = "idle" /\ save_result = "error" /\ ~isSaving
  /\ gen_pc = "idle" /\ toast_message = "generate_failed" /\ ~isGenerating

====
